---- MODULE Spec2Model ----
(***************************************************************************)
(* Model of the two Streamlit chat assistants of the repository:           *)
(*   app.py     three-stage interview (need_problem, need_clarify, done)   *)
(*   app-v2.py  free chat                                                  *)
(* One step of the model is one run of the script (Streamlit runs the      *)
(* whole script once per interaction).  Text is a sequence of tokens: a    *)
(* token is one character (" ", "\n", "a", ...) or one atomic marker       *)
(* ("<s>", "[INST]", ...).                                                 *)
(***************************************************************************)
EXTENDS Integers, Sequences, FiniteSets, TLC

VARIABLES
    app,          \* which script the session runs: "app" or "app-v2"
    stage,        \* app.py  st.session_state.stage
    chatlog,      \* app.py  st.session_state.chatlog
    user_prompt,  \* app.py  the value st.chat_input returned in the last run
    chat,         \* app-v2.py  st.session_state.chat
    prompt,       \* app-v2.py  the value st.chat_input returned in the last run
    posts,        \* number of requests.post calls made by the last run
    outcome,      \* how the last run ended: "start", "idle", "replied", "raised"
    arg,          \* a function called on its own: the message list it is given
    service,      \* a function called on its own: how the service will answer
    fn,           \* a function called on its own: its name, "none" before the call
    ret           \* a function called on its own: what the call came back with

\* the session state and the record of the last script run
sessionVars == <<app, stage, chatlog, user_prompt, chat, prompt, posts, outcome>>

\* the state of a function called on its own
callVars == <<arg, service, fn, ret>>

vars == <<app, stage, chatlog, user_prompt, chat, prompt, posts, outcome,
          arg, service, fn, ret>>

----------------------------------------------------------------------------
(* Bounds *)

MaxLog == 10   \* app.py: no submission is modelled that would grow chatlog beyond this
MaxChat == 4   \* app-v2.py: no submission is modelled that would grow chat beyond this

----------------------------------------------------------------------------
(* Text *)

IsSpace(c) == c \in {" ", "\n"}

RECURSIVE LStrip(_)
\* str.lstrip()
LStrip(s) ==
    IF s = << >> THEN s
    ELSE IF IsSpace(Head(s)) THEN LStrip(Tail(s)) ELSE s

RECURSIVE RStrip(_)
RStrip(s) ==
    IF s = << >> THEN s
    ELSE IF IsSpace(s[Len(s)]) THEN RStrip(SubSeq(s, 1, Len(s) - 1)) ELSE s

\* str.strip()
Strip(s) == RStrip(LStrip(s))

\* Python truthiness of what st.chat_input returns: None and "" are falsy
\* (both are the empty sequence here), every other string is truthy.
Truthy(s) == s # << >>

Msg(role, content) == [role |-> role, content |-> content]

\* Texts the user can type (what st.chat_input returns): nothing, a blank,
\* a word, and a word padded with blanks.
UserTexts == {<< >>, <<" ">>, <<"a">>, <<" ", "b", " ">>}

\* Continuations the service can generate, each after a leading space: an
\* ordinary word, or an echoed instruction marker followed by a word.
Gens == {<<" ", "ok">>, <<" ", "[INST]", "ok">>}

\* What a requests.post can come back with: a response with a status code, or
\* no response at all (the call raises a transport error or times out).
Responses ==
    {[arrived |-> TRUE, status |-> s] : s \in {200, 500, 503}}
        \cup {[arrived |-> FALSE, status |-> 0]}

----------------------------------------------------------------------------
(* app.py: prompt builder and completion call *)

RECURSIVE LeadingSystem(_)
LeadingSystem(messages) ==
    IF messages = << >> \/ Head(messages).role # "system" THEN << >>
    ELSE <<Head(messages)>> \o LeadingSystem(Tail(messages))

system_parts_leading(messages) ==
    LET sys == LeadingSystem(messages)
    IN  [i \in 1..Len(sys) |-> Strip(sys[i].content)]

\* the stripped contents of the system messages, in order
system_parts(messages) ==
    LET sys == SelectSeq(messages, LAMBDA m : m.role = "system")
    IN  [i \in 1..Len(sys) |-> Strip(sys[i].content)]

\* the other messages, in order, contents stripped
chat_parts(messages) ==
    LET rest == SelectSeq(messages, LAMBDA m : m.role # "system")
    IN  [i \in 1..Len(rest) |-> Msg(rest[i].role, Strip(rest[i].content))]

RECURSIVE JoinNL(_)
\* "\n".join(parts)
JoinNL(parts) ==
    IF parts = << >> THEN << >>
    ELSE IF Len(parts) = 1 THEN parts[1]
    ELSE parts[1] \o <<"\n">> \o JoinNL(Tail(parts))

RECURSIVE EncodeChat_sticky(_, _)
EncodeChat_sticky(parts, first) ==
    IF parts = << >> THEN << >>
    ELSE LET m == Head(parts) IN
         IF m.role = "user" THEN
            (IF first
                THEN m.content \o <<" ", "[/INST]">>
                ELSE <<"</s>", "\n", "<s>", "[INST]", " ">> \o m.content \o <<" ", "[/INST]">>)
            \o EncodeChat_sticky(Tail(parts), first)
         ELSE IF m.role = "assistant" THEN
            <<" ">> \o m.content \o <<" ">> \o EncodeChat_sticky(Tail(parts), first)
         ELSE EncodeChat_sticky(Tail(parts), first)

RECURSIVE EncodeChat(_, _)
\* the loop over chat_parts; first is the loop's flag
EncodeChat(parts, first) ==
    IF parts = << >> THEN << >>
    ELSE LET m == Head(parts) IN
         IF m.role = "user" THEN
            (IF first
                THEN m.content \o <<" ", "[/INST]">>
                ELSE <<"</s>", "\n", "<s>", "[INST]", " ">> \o m.content \o <<" ", "[/INST]">>)
            \o EncodeChat(Tail(parts), FALSE)
         ELSE IF m.role = "assistant" THEN
            <<" ">> \o m.content \o <<" ">> \o EncodeChat(Tail(parts), first)
         ELSE EncodeChat(Tail(parts), first)

build_prompt(messages) ==
    LET sys == system_parts(messages)
    IN  <<"<s>", "[INST]", " ">>
        \o (IF sys # << >>
               THEN <<"<<SYS>>", "\n">> \o JoinNL(sys) \o <<"\n", "<</SYS>>", "\n", "\n">>
               ELSE << >>)
        \o EncodeChat(chat_parts(messages), TRUE)
        \o <<" ">>

hf_generate_eager(p, r1, r2, gen) ==
    LET retry == r1.arrived /\ r1.status >= 500
        r == IF retry THEN r2 ELSE r1
        raised == ~r.arrived \/ r.status >= 400
        full_text == p \o gen
    IN  [posts |-> IF retry THEN 2 ELSE 1,
         raised |-> raised,
         text |-> IF raised THEN << >>
                  ELSE LStrip(SubSeq(full_text, Len(p) + 1, Len(full_text)))]

\* One call of hf_generate.  r1 and r2 are what the first and the second
\* requests.post come back with (r2 is only used when there is a second
\* one), gen is the continuation the service generates: its generated_text
\* is the prompt followed by gen.
hf_generate(p, r1, r2, gen) ==
    LET retry == r1.arrived /\ r1.status = 503
        r == IF retry THEN r2 ELSE r1
        raised == ~r.arrived \/ r.status >= 400
        full_text == p \o gen
    IN  [posts |-> IF retry THEN 2 ELSE 1,
         raised |-> raised,
         text |-> IF raised THEN << >>
                  ELSE LStrip(SubSeq(full_text, Len(p) + 1, Len(full_text)))]

llm_chat(messages, r1, r2, gen) == hf_generate(build_prompt(messages), r1, r2, gen)

----------------------------------------------------------------------------
(* app.py: session state and main interaction flow *)

\* the persona instruction the chatlog is seeded with
Persona == <<"persona">>

\* the hidden instruction appended in stage 1
Instruction1 == <<"instruction1">>

\* the hidden instruction appended in stage 2
Instruction2 == <<"instruction2">>

InitChatlog_empty == << >>

\* session-state initialisation: the chatlog of a new session
InitChatlog == <<Msg("system", Persona)>>

\* if st.session_state.stage == "need_problem":
InProblemBranch == stage = "need_problem"

InClarifyBranch_else == ~InProblemBranch

\* elif st.session_state.stage == "need_clarify":
InClarifyBranch == ~InProblemBranch /\ stage = "need_clarify"

Submitted_replace(log, u, instruction) ==
    LET n == Len(log)
        base == IF n >= 2 /\ log[n].role = "system" /\ log[n - 1].role = "user"
                   THEN SubSeq(log, 1, n - 2)
                   ELSE log
    IN  Append(Append(base, Msg("user", Strip(u))), Msg("system", instruction))

Submitted_transient(log, u, instruction) == Append(log, Msg("user", Strip(u)))

\* the two appends made before the completion call
Submitted(log, u, instruction) ==
    Append(Append(log, Msg("user", Strip(u))), Msg("system", instruction))

Raised_swallow(log, st) ==
    [chatlog |-> Append(log, Msg("assistant", << >>)), stage |-> st]

\* llm_chat raises: the exception ends the script run, so the statements
\* after the call do not execute; the appends made before it stay in the
\* session state.
Raised(log, st) == [chatlog |-> log, stage |-> st]

Replied_skip(log, text, next) ==
    [chatlog |-> Append(log, Msg("assistant", text)), stage |-> "done"]

\* llm_chat returns: the reply is appended and the stage is set
Replied(log, text, next) ==
    [chatlog |-> Append(log, Msg("assistant", text)), stage |-> next]

\* A script run in stage 1 where st.chat_input returns u.
NeedProblem ==
    /\ app = "app"
    /\ InProblemBranch
    /\ \E u \in UserTexts, r1 \in Responses, r2 \in Responses, gen \in Gens :
         /\ user_prompt' = u
         /\ IF Truthy(u)
               THEN LET log == Submitted(chatlog, u, Instruction1)
                        res == llm_chat(log, r1, r2, gen)
                        new == IF res.raised THEN Raised(log, stage)
                               ELSE Replied(log, res.text, "need_clarify")
                    IN  /\ Len(chatlog) + 3 <= MaxLog
                        /\ chatlog' = new.chatlog
                        /\ stage' = new.stage
                        /\ posts' = res.posts
                        /\ outcome' = IF res.raised THEN "raised" ELSE "replied"
               ELSE /\ UNCHANGED <<chatlog, stage>>
                    /\ posts' = 0
                    /\ outcome' = "idle"
    /\ UNCHANGED <<app, chat, prompt>>
    /\ UNCHANGED callVars

\* A script run in stage 2 where st.chat_input returns u.
NeedClarify ==
    /\ app = "app"
    /\ InClarifyBranch
    /\ \E u \in UserTexts, r1 \in Responses, r2 \in Responses, gen \in Gens :
         /\ user_prompt' = u
         /\ IF Truthy(u)
               THEN LET log == Submitted(chatlog, u, Instruction2)
                        res == llm_chat(log, r1, r2, gen)
                        new == IF res.raised THEN Raised(log, stage)
                               ELSE Replied(log, res.text, "done")
                    IN  /\ Len(chatlog) + 3 <= MaxLog
                        /\ chatlog' = new.chatlog
                        /\ stage' = new.stage
                        /\ posts' = res.posts
                        /\ outcome' = IF res.raised THEN "raised" ELSE "replied"
               ELSE /\ UNCHANGED <<chatlog, stage>>
                    /\ posts' = 0
                    /\ outcome' = "idle"
    /\ UNCHANGED <<app, chat, prompt>>
    /\ UNCHANGED callVars

\* A script run in any other stage: neither branch is taken, no chat input
\* is drawn (user_prompt stays None) and the stage 3 block is commented out.
Done ==
    /\ app = "app"
    /\ ~InProblemBranch
    /\ ~InClarifyBranch
    /\ user_prompt' = << >>
    /\ posts' = 0
    /\ outcome' = "idle"
    /\ UNCHANGED <<app, stage, chatlog, chat, prompt>>
    /\ UNCHANGED callVars

----------------------------------------------------------------------------
(* app-v2.py *)

\* CFG["system_prompts"]["quality"]
Quality == <<"quality">>

\* session-state initialisation: the chat of a new session
InitChat == <<Msg("system", Quality)>>

RECURSIVE build_prompt_v2_useronly(_)
build_prompt_v2_useronly(msgs) ==
    IF msgs = << >> THEN <<" ">>
    ELSE LET m == Head(msgs)
             txt == Strip(m.content)
         IN  (IF m.role = "user"
                 THEN <<"<s>", "[INST]", " ">> \o txt \o <<" ", "[/INST]">>
                 ELSE <<" ">> \o txt \o <<" ">>)
             \o build_prompt_v2_useronly(Tail(msgs))

RECURSIVE build_prompt_v2(_)
build_prompt_v2(msgs) ==
    IF msgs = << >> THEN <<" ">>
    ELSE LET m == Head(msgs)
             txt == Strip(m.content)
         IN  (IF m.role \in {"system", "user"}
                 THEN <<"<s>", "[INST]", " ">> \o txt \o <<" ", "[/INST]">>
                 ELSE <<" ">> \o txt \o <<" ">>)
             \o build_prompt_v2(Tail(msgs))

\* One call of hf_generate of app-v2.py: a single requests.post, no retry.
\* st.cache_data memoises replies per prompt across sessions; a session never
\* builds the same prompt twice (its chat grows with every submission), so
\* within one session a call either is answered (by the service or by the
\* cache another session filled) or raises.
hf_generate_v2(p, r, gen) ==
    LET raised == ~r.arrived \/ r.status >= 400
        full_text == p \o gen
    IN  [posts |-> 1,
         raised |-> raised,
         text |-> IF raised THEN << >>
                  ELSE LStrip(SubSeq(full_text, Len(p) + 1, Len(full_text)))]

\* A script run of app-v2.py where st.chat_input returns u.
ChatRun ==
    /\ app = "app-v2"
    /\ \E u \in UserTexts, r \in Responses, gen \in Gens :
         /\ prompt' = u
         /\ IF Truthy(u)
               THEN LET log == Append(chat, Msg("user", u))
                        res == hf_generate_v2(build_prompt_v2(log), r, gen)
                    IN  /\ Len(chat) + 2 <= MaxChat
                        /\ chat' = IF res.raised THEN log
                                   ELSE Append(log, Msg("assistant", res.text))
                        /\ posts' = res.posts
                        /\ outcome' = IF res.raised THEN "raised" ELSE "replied"
               ELSE /\ UNCHANGED chat
                    /\ posts' = 0
                    /\ outcome' = "idle"
    /\ UNCHANGED <<app, stage, chatlog, user_prompt>>
    /\ UNCHANGED callVars

----------------------------------------------------------------------------
(* Specification *)

\* no function is called on its own
NoCall ==
    /\ arg = << >>
    /\ service = << >>
    /\ fn = "none"
    /\ ret = << >>

\* a new session of either script
NewSession ==
    /\ app \in {"app", "app-v2"}
    /\ stage = IF app = "app" THEN "need_problem" ELSE "unset"
    /\ chatlog = IF app = "app" THEN InitChatlog ELSE << >>
    /\ chat = IF app = "app-v2" THEN InitChat ELSE << >>
    /\ user_prompt = << >>
    /\ prompt = << >>
    /\ posts = 0
    /\ outcome = "start"

Init == NewSession /\ NoCall

Next == NeedProblem \/ NeedClarify \/ Done \/ ChatRun

Spec == Init /\ [][Next]_vars

----------------------------------------------------------------------------
(* The helper functions called on their own *)

MaxMsgs == 4   \* longest message list a helper is called with

\* the contents a message of each role is drawn from; "tool" stands for any
\* role other than system, user and assistant
ContentsOf(role) ==
    CASE role = "system" -> {<<"s1">>, <<" ", "s2">>}
      [] role = "user" -> {<<"a">>, <<"b", " ">>}
      [] role = "assistant" -> {<<"ok">>}
      [] OTHER -> {<<"t">>}

MsgChoices ==
    UNION {{Msg(role, c) : c \in ContentsOf(role)} :
              role \in {"system", "user", "assistant", "tool"}}

MsgLists == UNION {[1..n -> MsgChoices] : n \in 0..MaxMsgs}

\* f"**{m['role']}**: {m['content']}"
Labelled(m) == <<"**", m.role, "**", ":", " ">> \o m.content

RECURSIVE JoinBlankLine(_)
\* "\n\n".join(parts)
JoinBlankLine(parts) ==
    IF parts = << >> THEN << >>
    ELSE IF Len(parts) = 1 THEN parts[1]
    ELSE parts[1] \o <<"\n", "\n">> \o JoinBlankLine(Tail(parts))

export_chat_inplace(log) ==
    LET shown == SelectSeq(log, LAMBDA m : m.role # "system")
    IN  [data |-> JoinBlankLine([i \in 1..Len(shown) |-> Labelled(shown[i])]),
         chatlog |-> shown]

\* app-v2.py export_chat: the data handed to the download button, and the
\* list it was given as the call leaves it
export_chat(log) ==
    LET shown == SelectSeq(log, LAMBDA m : m.role # "system")
    IN  [data |-> JoinBlankLine([i \in 1..Len(shown) |-> Labelled(shown[i])]),
         chatlog |-> log]

\* app.py build_prompt called on arg; it has no raise statement
CallBuildPrompt ==
    /\ app = "app"
    /\ fn = "none"
    /\ fn' = "build_prompt"
    /\ ret' = [raised |-> FALSE, value |-> build_prompt(arg)]
    /\ UNCHANGED <<arg, service>>
    /\ UNCHANGED sessionVars

\* app-v2.py build_prompt called on arg; it has no raise statement
CallBuildPromptV2 ==
    /\ app = "app-v2"
    /\ fn = "none"
    /\ fn' = "build_prompt_v2"
    /\ ret' = [raised |-> FALSE, value |-> build_prompt_v2(arg)]
    /\ UNCHANGED <<arg, service>>
    /\ UNCHANGED sessionVars

\* app-v2.py export_chat called on arg
CallExportChat ==
    /\ app = "app-v2"
    /\ fn = "none"
    /\ fn' = "export_chat"
    /\ ret' = [raised |-> FALSE, value |-> export_chat(arg).data]
    /\ arg' = export_chat(arg).chatlog
    /\ UNCHANGED service
    /\ UNCHANGED sessionVars

InitEncode ==
    /\ NewSession
    /\ arg \in MsgLists
    /\ service = << >>
    /\ fn = "none"
    /\ ret = << >>

NextEncode == CallBuildPrompt \/ CallBuildPromptV2 \/ CallExportChat

SpecEncode == InitEncode /\ [][NextEncode]_vars

\* app.py hf_generate called, as llm_chat calls it, on the prompt of a
\* chatlog; service holds what the first and the second requests.post will
\* come back with and the continuation the service generates
CallHfGenerate ==
    /\ app = "app"
    /\ fn = "none"
    /\ fn' = "hf_generate"
    /\ ret' = llm_chat(arg, service.r1, service.r2, service.gen)
    /\ UNCHANGED <<arg, service>>
    /\ UNCHANGED sessionVars

InitGenerate ==
    /\ NewSession
    /\ app = "app"
    /\ arg \in {Submitted(InitChatlog, u, Instruction1) : u \in {t \in UserTexts : Truthy(t)}}
    /\ service \in [r1 : Responses, r2 : Responses, gen : Gens]
    /\ fn = "none"
    /\ ret = << >>

NextGenerate == CallHfGenerate

SpecGenerate == InitGenerate /\ [][NextGenerate]_vars

----------------------------------------------------------------------------
(* Vocabulary of the properties *)

CountRole(log, role) == Cardinality({i \in 1..Len(log) : log[i].role = role})

IsPrefix(s, t) == Len(s) <= Len(t) /\ SubSeq(t, 1, Len(s)) = s

IsBlank(s) == Strip(s) = << >>

\* the instruction markers the app.py encoder writes into the prompt
Markers == {"[INST]", "[/INST]", "<<SYS>>", "<</SYS>>"}

HasMarker(s) == \E i \in 1..Len(s) : s[i] \in Markers

\* two user messages with no assistant message between them
UsersAdjacent(log) ==
    \E i, j \in 1..Len(log) :
        /\ i < j
        /\ log[i].role = "user"
        /\ log[j].role = "user"
        /\ \A k \in (i + 1)..(j - 1) : log[k].role # "assistant"

Filter(s, T) == SelectSeq(s, LAMBDA t : t \in T)

Count(s, t) == Cardinality({i \in 1..Len(s) : s[i] = t})

\* the tokens before position i
Before(s, i) == SubSeq(s, 1, i - 1)

\* the position of the first t in s (s holds one)
FirstIndex(s, t) == CHOOSE i \in 1..Len(s) : s[i] = t /\ \A j \in 1..(i - 1) : s[j] # t

RECURSIVE Concat(_)
Concat(seqs) == IF seqs = << >> THEN << >> ELSE Head(seqs) \o Concat(Tail(seqs))

\* the words the contents of each role are made of
SysWords == {"s1", "s2"}
UserWords == {"a", "b"}
ReplyWords == {"ok"}
OtherWords == {"t"}
Words == SysWords \cup UserWords \cup ReplyWords \cup OtherWords

\* the words of the messages of list whose role is in roles, in list order
WordsOf(list, roles) ==
    LET sel == SelectSeq(list, LAMBDA m : m.role \in roles)
    IN  Filter(Concat([i \in 1..Len(sel) |-> sel[i].content]), Words)

KnownRoles == {"system", "user", "assistant"}

\* the first instruction block of a prompt: up to its first end marker
FirstBlock(p) == SubSeq(p, 1, FirstIndex(p, "[/INST]"))

\* position i of prompt p lies inside an instruction block
InsideBlock(p, i) == Count(Before(p, i), "[INST]") = Count(Before(p, i), "[/INST]") + 1

----------------------------------------------------------------------------
(* Properties *)

\* C1: a run of app.py whose completion call fails appends no assistant
\* message, leaves the stage as it was, and leaves the submitted user message
\* in the chatlog.
C1_FailedCallKeepsStage ==
    [][(app = "app" /\ outcome' = "raised") =>
          /\ stage' = stage
          /\ CountRole(chatlog', "assistant") = CountRole(chatlog, "assistant")
          /\ \E i \in (Len(chatlog) + 1)..Len(chatlog') :
                chatlog'[i] = Msg("user", Strip(user_prompt'))]_vars

\* a completion call failed in stage 1 and another one in stage 2
C1_Witness ==
    /\ app = "app"
    /\ outcome = "raised"
    /\ stage = "need_clarify"
    /\ CountRole(chatlog, "user") >= 3

\* C2: after failed attempts in stage 1, once the same text has been
\* resubmitted and answered the chatlog holds one user message and one hidden
\* instruction for the turn.
C2_RetryDoesNotDuplicate ==
    (/\ app = "app"
     /\ stage = "need_clarify"
     /\ outcome = "replied"
     /\ \A i \in 1..Len(chatlog) :
           chatlog[i].role = "user" => chatlog[i].content = Strip(user_prompt))
        => /\ CountRole(chatlog, "user") = 1
           /\ CountRole(chatlog, "system") = 2

\* C3: the stage of app.py only changes need_problem -> need_clarify or
\* need_clarify -> done.
C3_StageForward ==
    [][app = "app" =>
          \/ stage' = stage
          \/ stage = "need_problem" /\ stage' = "need_clarify"
          \/ stage = "need_clarify" /\ stage' = "done"]_vars

\* done was reached through failed and successful completion calls
C3_Witness ==
    /\ app = "app"
    /\ stage = "done"
    /\ CountRole(chatlog, "user") > CountRole(chatlog, "assistant")

\* C4: a run of app.py whose input is empty or blank changes neither the
\* stage nor the chatlog and makes no completion call.
C4_BlankRejected ==
    [][(app = "app" /\ IsBlank(user_prompt')) =>
          /\ stage' = stage
          /\ chatlog' = chatlog
          /\ posts' = 0]_vars

\* C5: the log never holds two user messages without an assistant message
\* between them.
C5_UserThenAssistant ==
    /\ app = "app" => ~UsersAdjacent(chatlog)
    /\ app = "app-v2" => ~UsersAdjacent(chat)

\* C6: the log is never empty and its first message is a system message.
C6_LeadingSystem ==
    /\ app = "app" => (chatlog # << >> /\ chatlog[1].role = "system")
    /\ app = "app-v2" => (chat # << >> /\ chat[1].role = "system")

\* user messages were appended, also after a failed call
C6_Witness ==
    /\ app = "app"
    /\ stage = "done"
    /\ CountRole(chatlog, "user") >= 3

\* C7: no assistant message stored in the chatlog contains a marker token.
C7_StoredReplyHasNoMarker ==
    app = "app" =>
        \A i \in 1..Len(chatlog) :
            chatlog[i].role = "assistant" => ~HasMarker(chatlog[i].content)

\* C8: in stage done a step is possible that resets the session: the stage
\* becomes need_problem and the chatlog holds only the persona message.
C8_RestartAvailable ==
    (app = "app" /\ stage = "done") =>
        ENABLED (Next /\ stage' = "need_problem" /\ chatlog' = <<Msg("system", Persona)>>)

\* C9: once the stage is done, no run changes the chatlog or the stage or
\* makes a completion call.
C9_DoneIsInert ==
    [][(app = "app" /\ stage = "done") =>
          /\ chatlog' = chatlog
          /\ stage' = stage
          /\ posts' = 0]_vars

\* a run took place in stage done
C9_Witness ==
    /\ app = "app"
    /\ stage = "done"
    /\ outcome = "idle"

\* C10: every step leaves the log it found as a prefix of the log it leaves.
C10_AppendOnly ==
    [][IsPrefix(chatlog, chatlog') /\ IsPrefix(chat, chat')]_vars

\* the log grew by a failed call and then by an answered one
C10_Witness ==
    /\ app = "app"
    /\ outcome = "replied"
    /\ CountRole(chatlog, "user") >= 2
    /\ Len(chatlog) >= 6

\* C11: a run of app.py whose completion call returns appends exactly three
\* messages, the user message, the hidden instruction of the stage and the
\* assistant reply, in this order, and advances the stage by one step.
C11_SuccessAppendsThree ==
    [][(app = "app" /\ outcome' = "replied") =>
          LET n == Len(chatlog) IN
          /\ Len(chatlog') = n + 3
          /\ SubSeq(chatlog', 1, n) = chatlog
          /\ chatlog'[n + 1] = Msg("user", Strip(user_prompt'))
          /\ chatlog'[n + 2] =
                Msg("system", IF stage = "need_problem" THEN Instruction1 ELSE Instruction2)
          /\ chatlog'[n + 3].role = "assistant"
          /\ \/ stage = "need_problem" /\ stage' = "need_clarify"
             \/ stage = "need_clarify" /\ stage' = "done"]_vars

\* both transitions succeeded at the first attempt
C11_Witness ==
    /\ app = "app"
    /\ stage = "done"
    /\ outcome = "replied"
    /\ Len(chatlog) = 7

\* C20: after every run of app.py the stage agrees with the number of
\* assistant messages in the chatlog: need_problem with 0, need_clarify with
\* 1, done with 2, and there are never more than 2.
C20_StageCountsReplies ==
    app = "app" =>
        LET n == CountRole(chatlog, "assistant") IN
        /\ n <= 2
        /\ stage = "need_problem" <=> n = 0
        /\ stage = "need_clarify" <=> n = 1
        /\ stage = "done" <=> n = 2

\* a call failed in stage 1 and another one in stage 2
C20_Witness ==
    /\ app = "app"
    /\ stage = "need_clarify"
    /\ outcome = "raised"
    /\ CountRole(chatlog, "system") >= 4

----------------------------------------------------------------------------
(* Properties of the helper functions *)

UsersOf(list) == SelectSeq(list, LAMBDA m : m.role = "user")

EncoderCalled == fn \in {"build_prompt", "build_prompt_v2"}

C13_SimpleInterleave ==
    (fn = "build_prompt_v2" /\ \A i \in 1..Len(arg) : arg[i].role \in KnownRoles) =>
        LET p == ret.value
            blocks == Len(SelectSeq(arg, LAMBDA m : m.role \in {"system", "user"}))
        IN  /\ Count(p, "[INST]") = blocks
            /\ Count(p, "[/INST]") = blocks
            /\ Count(p, "<s>") = blocks
            /\ p[Len(p)] = " "
            /\ Filter(p, Words) = WordsOf(arg, KnownRoles)
            /\ \A i \in 1..Len(p) :
                  /\ p[i] \in SysWords \cup UserWords => InsideBlock(p, i)
                  /\ p[i] \in ReplyWords =>
                        /\ ~InsideBlock(p, i)
                        /\ p[i - 1] = " "
                        /\ p[i + 1] = " "

\* a prompt was built for two system messages in a row, a user message and
\* a reply
C13_Witness ==
    /\ fn = "build_prompt_v2"
    /\ \A i \in 1..Len(arg) : arg[i].role \in KnownRoles
    /\ \E i \in 1..(Len(arg) - 1) : arg[i].role = "system" /\ arg[i + 1].role = "system"
    /\ \E i \in 1..Len(arg) : arg[i].role = "user"
    /\ \E i \in 1..Len(arg) : arg[i].role = "assistant"

\* C14: an encoder called with a message of another role than system, user
\* and assistant fails.
C14_UnknownRoleFails ==
    (EncoderCalled /\ \E i \in 1..Len(arg) : arg[i].role \notin KnownRoles) =>
        ret.raised

\* C15: an encoder called with the empty list fails.
C15_EmptyListFails ==
    (EncoderCalled /\ arg = << >>) => ret.raised

\* C16: for a non-empty list of system messages only, every instruction start
\* marker of the prompt is closed by an end marker and the prompt ends with a
\* space.
C16_SystemOnlyWellFormed ==
    (/\ EncoderCalled
     /\ arg # << >>
     /\ \A i \in 1..Len(arg) : arg[i].role = "system") =>
        LET p == ret.value IN
        /\ p[Len(p)] = " "
        /\ Count(p, "[INST]") = Count(p, "[/INST]")
        /\ \A i \in 1..Len(p) :
              p[i] = "[INST]" => \E j \in (i + 1)..Len(p) : p[j] = "[/INST]"

\* C17: one call of hf_generate sends a second request exactly when the
\* first response was 503, never a third, and then returns if the last
\* response is a success and raises otherwise, also on a second 503.
C17_OneRetry ==
    fn = "hf_generate" =>
        LET warm == service.r1.arrived /\ service.r1.status = 503
            last == IF warm THEN service.r2 ELSE service.r1
        IN  /\ ret.posts \in {1, 2}
            /\ ret.posts = 2 <=> warm
            /\ ret.raised <=> ~(last.arrived /\ last.status = 200)
            /\ (warm /\ service.r2.arrived /\ service.r2.status = 503) => ret.raised
            /\ ~ret.raised => ret.text = LStrip(service.gen)

\* the first response was 503 and so was the second
C17_Witness ==
    /\ fn = "hf_generate"
    /\ service.r1 = [arrived |-> TRUE, status |-> 503]
    /\ service.r2 = [arrived |-> TRUE, status |-> 503]
    /\ ret.posts = 2

\* C18: the exported transcript holds the non-system messages of the list
\* and no other, in list order, each under its role label, and the export
\* leaves the list as it was.
C18_ExportIsProjection ==
    [][fn' = "export_chat" =>
          LET shown == SelectSeq(arg, LAMBDA m : m.role # "system")
              data == ret'.value
          IN  /\ arg' = arg
              /\ Count(data, "**") = 2 * Len(shown)
              /\ Filter(data, KnownRoles \cup {"tool"})
                    = [i \in 1..Len(shown) |-> shown[i].role]
              /\ Filter(data, Words) = WordsOf(arg, {"user", "assistant", "tool"})
              /\ \A i \in 1..Len(data) :
                    data[i] \in KnownRoles \cup {"tool"} =>
                        /\ data[i - 1] = "**"
                        /\ data[i + 1] = "**"]_vars

\* a list with system, user and assistant messages was exported
C18_Witness ==
    /\ fn = "export_chat"
    /\ \E i, j, k \in 1..Len(arg) :
          /\ i < j
          /\ arg[i].role = "user"
          /\ arg[j].role = "assistant"
          /\ arg[k].role = "system"
    /\ ret.value # << >>

\* C19: the app.py prompt of a list with system messages has one preamble;
\* it holds the contents of all system messages, in list order and each
\* once, and stands before every user and assistant content, wherever the
\* system messages sit in the list.
C19_SinglePreamble ==
    (fn = "build_prompt" /\ \E i \in 1..Len(arg) : arg[i].role = "system") =>
        LET p == ret.value IN
        /\ Count(p, "<<SYS>>") = 1
        /\ Count(p, "<</SYS>>") = 1
        /\ LET open == FirstIndex(p, "<<SYS>>")
               close == FirstIndex(p, "<</SYS>>")
           IN  /\ open < close
               /\ Filter(SubSeq(p, open, close), Words) = WordsOf(arg, {"system"})
               /\ Filter(p, SysWords) = WordsOf(arg, {"system"})
               /\ \A i \in 1..Len(p) :
                     p[i] \in UserWords \cup ReplyWords => i > close

\* a prompt was built for a list where a system message follows a user
\* message, as the hidden instruction does in the chatlog
C19_Witness ==
    /\ fn = "build_prompt"
    /\ \E i, j, k \in 1..Len(arg) :
          /\ i < j /\ j < k
          /\ arg[i].role = "system"
          /\ arg[j].role = "user"
          /\ arg[k].role = "system"

====
